---- MODULE Spec2Model ----
(***************************************************************************)
(* The batch ledger of apps/contracts/contracts/SupplyChain.sol as a state *)
(* machine.  One action per external function of the contract; every call  *)
(* is a transaction that either commits all its writes and events or       *)
(* reverts and leaves the storage untouched.                               *)
(***************************************************************************)
EXTENDS Integers, Sequences, FiniteSets, TLC

(***************************************************************************)
(* Bounds of the model.  A transaction is explored only while the event    *)
(* log and the batch histories it leaves have room.                        *)
(***************************************************************************)
\* specification Spec: many inputs, short runs
MaxEvents == 2
MaxHistory == 2
\* specification SpecLifecycle: one batch, runs through the whole lifecycle
MaxLifecycleEvents == 6
MaxLifecycleHistory == 6
\* specification SpecHandling: one batch of either owner, a short handling
MaxHandlingEvents == 4
MaxHandlingHistory == 4

(***************************************************************************)
(* Program constants.                                                      *)
(***************************************************************************)
ZeroAddress == 0

Created == 0
InTransit == 1
DeliveredToDistributor == 2
DeliveredToRetailer == 3
DeliveredToConsumer == 4

Status == {Created, InTransit, DeliveredToDistributor, DeliveredToRetailer,
           DeliveredToConsumer}

(***************************************************************************)
(* Input sets.                                                             *)
(***************************************************************************)
\* address(0) and three accounts
Addr == {ZeroAddress, 1, 2, 3}
\* msg.sender is never address(0)
Senders == Addr \ {ZeroAddress}
\* the contract only compares addresses, so one deployer stands for all
Deployers == {1}
BatchIdInputs == {"", "B1", "B2"}
UserIds == {"u1", "u2"}
Names == {"L1"}
Locations == {"Plant A", "Depot"}
\* the contract only compares a quantity with zero
Quantities == {0, 100}
\* block.timestamp, which is never zero; the contract only stores it and
\* compares the stored value with zero
Timestamps == {1}

\* the inputs and bounds of Spec
Wide == [ids |-> BatchIdInputs, users |-> UserIds, names |-> Names,
         createLocs |-> Locations, locs |-> {"Depot"},
         quantities |-> Quantities, timestamps |-> Timestamps,
         maxEvents |-> MaxEvents, maxHistory |-> MaxHistory]

\* the inputs and bounds of SpecLifecycle
Deep == [ids |-> {"", "B1"}, users |-> {"u1"}, names |-> Names,
         createLocs |-> {"Plant A"}, locs |-> {"Depot"},
         quantities |-> Quantities, timestamps |-> {1},
         maxEvents |-> MaxLifecycleEvents, maxHistory |-> MaxLifecycleHistory]

\* the inputs and bounds of SpecHandling
Mid == [ids |-> {"", "B1"}, users |-> UserIds, names |-> Names,
        createLocs |-> Locations, locs |-> {"Depot"},
        quantities |-> Quantities, timestamps |-> Timestamps,
        maxEvents |-> MaxHandlingEvents, maxHistory |-> MaxHandlingHistory]

VARIABLES manufacturer, distributor, retailer, batches, allBatchIds,
          userBatches, events, products, route

vars == <<manufacturer, distributor, retailer, batches, allBatchIds,
          userBatches, events, products, route>>

\* the contract's storage and its event log, as one value
World == [manufacturer |-> manufacturer, distributor |-> distributor,
          retailer |-> retailer, batches |-> batches,
          allBatchIds |-> allBatchIds, userBatches |-> userBatches,
          events |-> events]

\* the value a mapping(string => Batch) holds for a key never written
EmptyBatch == [batchId |-> "", quantity |-> 0, userId |-> "",
               internalBatchName |-> "", manufacturingDate |-> 0,
               status |-> Created, currentLocation |-> "",
               currentHolder |-> ZeroAddress, history |-> <<>>]

(***************************************************************************)
(* Transaction outcomes.                                                   *)
(***************************************************************************)
\* a failed require or a revert: the storage is rolled back to w
Revert(w, msg) == [ok |-> FALSE, err |-> msg, w |-> w]
Commit(w) == [ok |-> TRUE, err |-> "", w |-> w]

\* onlyRole without its require
onlyRole_Anyone(sender, role) == TRUE

\* modifier onlyRole
onlyRole(sender, role) == sender = role

\* batchExists without its require
batchExists_Always(w, id) == TRUE

\* modifier batchExists, and batchExistsView
batchExists(w, id) == w.batches[id].manufacturingDate # 0

(***************************************************************************)
(* createBatch                                                             *)
(***************************************************************************)
BatchCreated(id, name, qty, uid) ==
    [name |-> "BatchCreated", batchId |-> id, internalBatchName |-> name,
     quantity |-> qty, userId |-> uid]

\* createBatchRequires without the duplicate check
createBatchRequires_NoDuplicateCheck(w, id, qty) ==
    IF ~(Len(id) > 0) THEN "Batch ID cannot be empty"
    ELSE IF ~(qty > 0) THEN "Quantity must be greater than zero"
    ELSE ""

\* createBatchRequires without the quantity check
createBatchRequires_NoQuantityCheck(w, id, qty) ==
    IF ~(Len(id) > 0) THEN "Batch ID cannot be empty"
    ELSE IF ~(w.batches[id].manufacturingDate = 0) THEN "Batch ID already exists"
    ELSE ""

\* the three requires of createBatch, in order; "" when all pass
createBatchRequires(w, id, qty) ==
    IF ~(Len(id) > 0) THEN "Batch ID cannot be empty"
    ELSE IF ~(w.batches[id].manufacturingDate = 0) THEN "Batch ID already exists"
    ELSE IF ~(qty > 0) THEN "Quantity must be greater than zero"
    ELSE ""

\* NewBatch without the write of currentHolder
NewBatch_HolderUnset(w, id, qty, uid, name, loc, ts) ==
    [w.batches[id] EXCEPT
        !.batchId = id,
        !.quantity = qty,
        !.userId = uid,
        !.internalBatchName = name,
        !.manufacturingDate = ts,
        !.status = Created,
        !.currentLocation = loc,
        !.history = Append(@, "Batch created by manufacturer")]

\* the writes through the storage pointer newBatch
NewBatch(w, id, qty, uid, name, loc, ts) ==
    [w.batches[id] EXCEPT
        !.batchId = id,
        !.quantity = qty,
        !.userId = uid,
        !.internalBatchName = name,
        !.manufacturingDate = ts,
        !.status = Created,
        !.currentLocation = loc,
        !.currentHolder = w.manufacturer,
        !.history = Append(@, "Batch created by manufacturer")]

\* RegisterBatch without the emit
RegisterBatch_NoEvent(w, id, qty, uid, name) ==
    [w EXCEPT !.allBatchIds = Append(@, id),
              !.userBatches[uid] = Append(@, id)]

\* RegisterBatch without the push to the owner's index
RegisterBatch_NoUserIndex(w, id, qty, uid, name) ==
    [w EXCEPT !.allBatchIds = Append(@, id),
              !.events = Append(@, BatchCreated(id, name, qty, uid))]

\* the two index pushes and the event
RegisterBatch(w, id, qty, uid, name) ==
    [w EXCEPT !.allBatchIds = Append(@, id),
              !.userBatches[uid] = Append(@, id),
              !.events = Append(@, BatchCreated(id, name, qty, uid))]

createBatch(w, sender, id, qty, uid, name, loc, ts) ==
    IF ~onlyRole(sender, w.manufacturer)
    THEN Revert(w, "Caller does not have the required role")
    ELSE LET e == createBatchRequires(w, id, qty) IN
         IF e # "" THEN Revert(w, e)
         ELSE Commit(RegisterBatch(
                  [w EXCEPT !.batches[id] = NewBatch(w, id, qty, uid, name, loc, ts)],
                  id, qty, uid, name))

(***************************************************************************)
(* updateBatchStatus                                                       *)
(***************************************************************************)
BatchStatusUpdated(id, label, by, loc) ==
    [name |-> "BatchStatusUpdated", batchId |-> id, newStatus |-> label,
     by |-> by, location |-> loc]

\* what _getStatusString yields when it reverts
InvalidStatus == "revert: Invalid status"

\* _getStatusString with the case of DeliveredToRetailer left out
_getStatusString_MissingCase(s) ==
    IF s = Created THEN "manufactured"
    ELSE IF s = InTransit THEN "in transit"
    ELSE IF s = DeliveredToDistributor THEN "delivered to distributor"
    ELSE IF s = DeliveredToConsumer THEN "delivered to consumer"
    ELSE InvalidStatus

_getStatusString(s) ==
    IF s = Created THEN "manufactured"
    ELSE IF s = InTransit THEN "in transit"
    ELSE IF s = DeliveredToDistributor THEN "delivered to distributor"
    ELSE IF s = DeliveredToRetailer THEN "delivered to retailer"
    ELSE IF s = DeliveredToConsumer THEN "delivered to consumer"
    ELSE InvalidStatus

\* BranchInTransit with a status require that also admits a batch that is
\* already in transit
BranchInTransit_FromInTransit(w, sender, batch) ==
    LET currentStatus == batch.status IN
    [err |-> IF ~(currentStatus = Created \/ currentStatus = InTransit
                  \/ currentStatus = DeliveredToDistributor)
             THEN "Invalid status transition to in transit"
             ELSE IF ~(sender = w.manufacturer \/ sender = w.distributor)
             THEN "Only manufacturer or distributor can mark as in transit"
             ELSE "",
     holder |-> batch.currentHolder,
     msg |-> IF currentStatus = Created
             THEN "Shipped by manufacturer to distributor"
             ELSE "Shipped by distributor to retailer"]

\* Each branch of the if-chain: err is the message of the first failing
\* require ("" when both pass), holder the batch's holder after the branch,
\* msg the history message.
BranchInTransit(w, sender, batch) ==
    LET currentStatus == batch.status IN
    [err |-> IF ~(currentStatus = Created \/ currentStatus = DeliveredToDistributor)
             THEN "Invalid status transition to in transit"
             ELSE IF ~(sender = w.manufacturer \/ sender = w.distributor)
             THEN "Only manufacturer or distributor can mark as in transit"
             ELSE "",
     holder |-> batch.currentHolder,
     msg |-> IF currentStatus = Created
             THEN "Shipped by manufacturer to distributor"
             ELSE "Shipped by distributor to retailer"]

\* BranchDeliveredToDistributor without the require on the current status
BranchDeliveredToDistributor_AnyStatus(w, sender, batch) ==
    [err |-> IF ~(sender = w.distributor)
             THEN "Only distributor can receive batch"
             ELSE "",
     holder |-> w.distributor,
     msg |-> "Delivered to distributor"]

\* BranchDeliveredToDistributor with its two requires in the other order
BranchDeliveredToDistributor_CallerFirst(w, sender, batch) ==
    [err |-> IF ~(sender = w.distributor)
             THEN "Only distributor can receive batch"
             ELSE IF ~(batch.status = InTransit) THEN "Batch must be in transit"
             ELSE "",
     holder |-> w.distributor,
     msg |-> "Delivered to distributor"]

BranchDeliveredToDistributor(w, sender, batch) ==
    [err |-> IF ~(batch.status = InTransit) THEN "Batch must be in transit"
             ELSE IF ~(sender = w.distributor)
             THEN "Only distributor can receive batch"
             ELSE "",
     holder |-> w.distributor,
     msg |-> "Delivered to distributor"]

\* BranchDeliveredToRetailer with its two requires in the other order
BranchDeliveredToRetailer_CallerFirst(w, sender, batch) ==
    [err |-> IF ~(sender = w.retailer)
             THEN "Only retailer can receive batch"
             ELSE IF ~(batch.status = InTransit)
             THEN "Batch must be in transit from distributor"
             ELSE "",
     holder |-> w.retailer,
     msg |-> "Delivered to retailer"]

BranchDeliveredToRetailer(w, sender, batch) ==
    [err |-> IF ~(batch.status = InTransit)
             THEN "Batch must be in transit from distributor"
             ELSE IF ~(sender = w.retailer)
             THEN "Only retailer can receive batch"
             ELSE "",
     holder |-> w.retailer,
     msg |-> "Delivered to retailer"]

\* BranchDeliveredToConsumer without the require on msg.sender
BranchDeliveredToConsumer_AnyCaller(w, sender, batch) ==
    [err |-> IF ~(batch.status = DeliveredToRetailer)
             THEN "Batch must be at retailer"
             ELSE "",
     holder |-> batch.currentHolder,
     msg |-> "Delivered to consumer"]

\* BranchDeliveredToConsumer with a require that also admits a batch that
\* is already delivered to the consumer
BranchDeliveredToConsumer_FromConsumer(w, sender, batch) ==
    [err |-> IF ~(batch.status = DeliveredToRetailer
                  \/ batch.status = DeliveredToConsumer)
             THEN "Batch must be at retailer"
             ELSE IF ~(sender = w.retailer)
             THEN "Only retailer can deliver to consumer"
             ELSE "",
     holder |-> batch.currentHolder,
     msg |-> "Delivered to consumer"]

BranchDeliveredToConsumer(w, sender, batch) ==
    [err |-> IF ~(batch.status = DeliveredToRetailer)
             THEN "Batch must be at retailer"
             ELSE IF ~(sender = w.retailer)
             THEN "Only retailer can deliver to consumer"
             ELSE "",
     holder |-> batch.currentHolder,
     msg |-> "Delivered to consumer"]

\* BranchElse without its revert
BranchElse_NoRevert(w, sender, batch) ==
    [err |-> "", holder |-> batch.currentHolder, msg |-> ""]

BranchElse(w, sender, batch) ==
    [err |-> "Invalid status transition", holder |-> batch.currentHolder,
     msg |-> ""]

\* the if / else-if chain on _newStatus
StatusBranch(w, sender, batch, newStatus) ==
    IF newStatus = InTransit THEN BranchInTransit(w, sender, batch)
    ELSE IF newStatus = DeliveredToDistributor
    THEN BranchDeliveredToDistributor(w, sender, batch)
    ELSE IF newStatus = DeliveredToRetailer
    THEN BranchDeliveredToRetailer(w, sender, batch)
    ELSE IF newStatus = DeliveredToConsumer
    THEN BranchDeliveredToConsumer(w, sender, batch)
    ELSE BranchElse(w, sender, batch)

\* ApplyStatus with the new location written to the wrong string field
ApplyStatus_WrongField(batch, holder, newStatus, newLocation, msg) ==
    [batch EXCEPT !.currentHolder = holder,
                  !.status = newStatus,
                  !.internalBatchName = newLocation,
                  !.history = Append(@, msg)]

\* ApplyStatus that stores a rebuilt struct, the creation date left out
ApplyStatus_Rebuilt(batch, holder, newStatus, newLocation, msg) ==
    [EmptyBatch EXCEPT !.batchId = batch.batchId,
                       !.quantity = batch.quantity,
                       !.userId = batch.userId,
                       !.internalBatchName = batch.internalBatchName,
                       !.currentHolder = holder,
                       !.status = newStatus,
                       !.currentLocation = newLocation,
                       !.history = Append(batch.history, msg)]

\* ApplyStatus without the write of status
ApplyStatus_StatusKept(batch, holder, newStatus, newLocation, msg) ==
    [batch EXCEPT !.currentHolder = holder,
                  !.currentLocation = newLocation,
                  !.history = Append(@, msg)]

\* ApplyStatus without the write of currentLocation
ApplyStatus_LocationKept(batch, holder, newStatus, newLocation, msg) ==
    [batch EXCEPT !.currentHolder = holder,
                  !.status = newStatus,
                  !.history = Append(@, msg)]

\* the three writes after the chain
ApplyStatus(batch, holder, newStatus, newLocation, msg) ==
    [batch EXCEPT !.currentHolder = holder,
                  !.status = newStatus,
                  !.currentLocation = newLocation,
                  !.history = Append(@, msg)]

\* updateBatchStatus written without the rollback: the branch's write of
\* currentHolder stays when a require of the branch fails
updateBatchStatus_HolderKept(w, sender, id, newStatus, newLocation) ==
    IF ~batchExists(w, id) THEN Revert(w, "Batch does not exist")
    ELSE LET batch == w.batches[id]
             b == StatusBranch(w, sender, batch, newStatus)
             label == _getStatusString(newStatus)
         IN  IF b.err # ""
             THEN [ok |-> FALSE, err |-> b.err,
                   w |-> [w EXCEPT !.batches[id].currentHolder = b.holder]]
             ELSE IF label = InvalidStatus THEN Revert(w, "Invalid status")
             ELSE Commit([w EXCEPT
                     !.batches[id] = ApplyStatus(batch, b.holder, newStatus,
                                                 newLocation, b.msg),
                     !.events = Append(@, BatchStatusUpdated(id, label, sender,
                                                             newLocation))])

updateBatchStatus(w, sender, id, newStatus, newLocation) ==
    IF ~batchExists(w, id) THEN Revert(w, "Batch does not exist")
    ELSE LET batch == w.batches[id]
             b == StatusBranch(w, sender, batch, newStatus)
             label == _getStatusString(newStatus)
         IN  IF b.err # "" THEN Revert(w, b.err)
             ELSE IF label = InvalidStatus THEN Revert(w, "Invalid status")
             ELSE Commit([w EXCEPT
                     !.batches[id] = ApplyStatus(batch, b.holder, newStatus,
                                                 newLocation, b.msg),
                     !.events = Append(@, BatchStatusUpdated(id, label, sender,
                                                             newLocation))])

(***************************************************************************)
(* setDistributor, setRetailer, updateBatchHolder                          *)
(***************************************************************************)
\* setDistributor that also hands the batches the old distributor holds to
\* the new one
setDistributor_MovesHeldBatches(w, sender, newDistributor) ==
    IF ~onlyRole(sender, w.manufacturer)
    THEN Revert(w, "Caller does not have the required role")
    ELSE IF ~(newDistributor # ZeroAddress) THEN Revert(w, "Invalid address")
    ELSE Commit([w EXCEPT
            !.distributor = newDistributor,
            !.batches = [id \in DOMAIN @ |->
                            IF @[id].manufacturingDate # 0
                               /\ @[id].currentHolder = w.distributor
                            THEN [@[id] EXCEPT !.currentHolder = newDistributor]
                            ELSE @[id]]])

\* setDistributor that stores the new address in the wrong registry slot
setDistributor_WritesManufacturer(w, sender, newDistributor) ==
    IF ~onlyRole(sender, w.manufacturer)
    THEN Revert(w, "Caller does not have the required role")
    ELSE IF ~(newDistributor # ZeroAddress) THEN Revert(w, "Invalid address")
    ELSE Commit([w EXCEPT !.manufacturer = newDistributor])

\* setDistributor without the zero-address require
setDistributor_NoZeroCheck(w, sender, newDistributor) ==
    IF ~onlyRole(sender, w.manufacturer)
    THEN Revert(w, "Caller does not have the required role")
    ELSE Commit([w EXCEPT !.distributor = newDistributor])

setDistributor(w, sender, newDistributor) ==
    IF ~onlyRole(sender, w.manufacturer)
    THEN Revert(w, "Caller does not have the required role")
    ELSE IF ~(newDistributor # ZeroAddress) THEN Revert(w, "Invalid address")
    ELSE Commit([w EXCEPT !.distributor = newDistributor])

\* setRetailer that also lets the current retailer name its successor
setRetailer_ByRetailer(w, sender, newRetailer) ==
    IF ~(onlyRole(sender, w.manufacturer) \/ sender = w.retailer)
    THEN Revert(w, "Caller does not have the required role")
    ELSE IF ~(newRetailer # ZeroAddress) THEN Revert(w, "Invalid address")
    ELSE Commit([w EXCEPT !.retailer = newRetailer])

setRetailer(w, sender, newRetailer) ==
    IF ~onlyRole(sender, w.manufacturer)
    THEN Revert(w, "Caller does not have the required role")
    ELSE IF ~(newRetailer # ZeroAddress) THEN Revert(w, "Invalid address")
    ELSE Commit([w EXCEPT !.retailer = newRetailer])

\* updateBatchHolder that refuses a batch already delivered to the consumer
updateBatchHolder_NotWhenDelivered(w, sender, id, newHolder) ==
    IF ~onlyRole(sender, w.manufacturer)
    THEN Revert(w, "Caller does not have the required role")
    ELSE IF ~batchExists(w, id) THEN Revert(w, "Batch does not exist")
    ELSE IF ~(newHolder # ZeroAddress) THEN Revert(w, "Invalid holder address")
    ELSE IF w.batches[id].status = DeliveredToConsumer
    THEN Revert(w, "Invalid status transition")
    ELSE Commit([w EXCEPT
            !.batches[id].currentHolder = newHolder,
            !.batches[id].history = Append(@, "Holder updated by manufacturer")])

\* updateBatchHolder without the zero-address require
updateBatchHolder_NoZeroCheck(w, sender, id, newHolder) ==
    IF ~onlyRole(sender, w.manufacturer)
    THEN Revert(w, "Caller does not have the required role")
    ELSE IF ~batchExists(w, id) THEN Revert(w, "Batch does not exist")
    ELSE Commit([w EXCEPT
            !.batches[id].currentHolder = newHolder,
            !.batches[id].history = Append(@, "Holder updated by manufacturer")])

\* updateBatchHolder that also admits the batch's current holder
updateBatchHolder_ByHolder(w, sender, id, newHolder) ==
    IF ~(onlyRole(sender, w.manufacturer)
         \/ sender = w.batches[id].currentHolder)
    THEN Revert(w, "Caller does not have the required role")
    ELSE IF ~batchExists(w, id) THEN Revert(w, "Batch does not exist")
    ELSE IF ~(newHolder # ZeroAddress) THEN Revert(w, "Invalid holder address")
    ELSE Commit([w EXCEPT
            !.batches[id].currentHolder = newHolder,
            !.batches[id].history = Append(@, "Holder updated by manufacturer")])

\* updateBatchHolder that puts the batch back to its first status
updateBatchHolder_ResetsStatus(w, sender, id, newHolder) ==
    IF ~onlyRole(sender, w.manufacturer)
    THEN Revert(w, "Caller does not have the required role")
    ELSE IF ~batchExists(w, id) THEN Revert(w, "Batch does not exist")
    ELSE IF ~(newHolder # ZeroAddress) THEN Revert(w, "Invalid holder address")
    ELSE Commit([w EXCEPT
            !.batches[id].currentHolder = newHolder,
            !.batches[id].status = Created,
            !.batches[id].history = Append(@, "Holder updated by manufacturer")])

\* updateBatchHolder without the push to history
updateBatchHolder_NoHistory(w, sender, id, newHolder) ==
    IF ~onlyRole(sender, w.manufacturer)
    THEN Revert(w, "Caller does not have the required role")
    ELSE IF ~batchExists(w, id) THEN Revert(w, "Batch does not exist")
    ELSE IF ~(newHolder # ZeroAddress) THEN Revert(w, "Invalid holder address")
    ELSE Commit([w EXCEPT !.batches[id].currentHolder = newHolder])

updateBatchHolder(w, sender, id, newHolder) ==
    IF ~onlyRole(sender, w.manufacturer)
    THEN Revert(w, "Caller does not have the required role")
    ELSE IF ~batchExists(w, id) THEN Revert(w, "Batch does not exist")
    ELSE IF ~(newHolder # ZeroAddress) THEN Revert(w, "Invalid holder address")
    ELSE Commit([w EXCEPT
            !.batches[id].currentHolder = newHolder,
            !.batches[id].history = Append(@, "Holder updated by manufacturer")])

(***************************************************************************)
(* View functions                                                          *)
(***************************************************************************)
batchExistsView(w, id) == w.batches[id].manufacturingDate # 0

\* getBatch without the batchExists modifier: the zero struct of an absent id
getBatch_NoExistenceCheck(w, id) ==
    LET b == w.batches[id] IN
    IF _getStatusString(b.status) = InvalidStatus
    THEN [ok |-> FALSE, err |-> "Invalid status"]
    ELSE [ok |-> TRUE, err |-> "",
          batchId |-> b.batchId, quantity |-> b.quantity,
          userId |-> b.userId, internalBatchName |-> b.internalBatchName,
          manufacturingDate |-> b.manufacturingDate,
          status |-> _getStatusString(b.status),
          currentLocation |-> b.currentLocation,
          currentHolder |-> b.currentHolder]

getBatch(w, id) ==
    IF ~batchExists(w, id) THEN [ok |-> FALSE, err |-> "Batch does not exist"]
    ELSE LET b == w.batches[id] IN
         IF _getStatusString(b.status) = InvalidStatus
         THEN [ok |-> FALSE, err |-> "Invalid status"]
         ELSE [ok |-> TRUE, err |-> "",
               batchId |-> b.batchId, quantity |-> b.quantity,
               userId |-> b.userId, internalBatchName |-> b.internalBatchName,
               manufacturingDate |-> b.manufacturingDate,
               status |-> _getStatusString(b.status),
               currentLocation |-> b.currentLocation,
               currentHolder |-> b.currentHolder]

getAllBatchIds(w) == w.allBatchIds

getBatchesByUser(w, uid) == w.userBatches[uid]

getBatchHistory(w, id) ==
    IF ~batchExists(w, id) THEN [ok |-> FALSE, err |-> "Batch does not exist"]
    ELSE [ok |-> TRUE, err |-> "", history |-> w.batches[id].history]

getBatchCount(w) == Len(w.allBatchIds)

\* the transaction's outcome becomes the contract's new state; a reverted
\* transaction leaves the state it was given
StoreWorld(r) ==
    /\ manufacturer' = r.w.manufacturer
    /\ distributor' = r.w.distributor
    /\ retailer' = r.w.retailer
    /\ batches' = r.w.batches
    /\ allBatchIds' = r.w.allBatchIds
    /\ userBatches' = r.w.userBatches
    /\ events' = r.w.events

\* a transaction sent to the contract directly: the web application's
\* database and route are not involved
Store(r) ==
    /\ StoreWorld(r)
    /\ UNCHANGED <<products, route>>

(***************************************************************************)
(* The batch-creation route of the web application: POST writes a product  *)
(* row to the database, then calls createBatch, and deletes the row again  *)
(* when the call fails.  route is the handler's position and locals, and   *)
(* products the database table as (id, user_id) rows.                      *)
(***************************************************************************)
\* the ids uuidv4() can return
Uuids == {"B1", "B2"}

\* auth(): no user, or a user id
RouteUsers == {""} \cup UserIds

\* a JSON value of the request body where a string is expected
JsonString(t) == [type |-> "string", text |-> t]
JsonArray(t) == [type |-> "array", text |-> t]

\* JavaScript truthiness of such a value: only the empty string is falsy
Truthy(v) == ~(v.type = "string" /\ v.text = "")

\* the request bodies
Bodies ==
    [name : {"", "P"}, cost : {0, 10}, category : {"", "C"},
     internalBatchName : {JsonString(""), JsonString("L1"),
                          JsonArray("Invalid values")},
     sku : {"", "S"}, quantity : {-1, 0, 100},
     initialLocation : {"", "Plant A"},
     distributorAddress : {"", "xyz", "0x2"}]

\* ethers.isAddress on the strings of Bodies
isAddress(a) == a = "0x2"

\* the private key the server is configured with: none, or an account's
NoKey == 99
RouteSigners == Senders \cup {NoKey}

\* an error message, as the sequence of the pieces it is put together from
ValidationPhrases == {"Missing required fields", "Invalid values",
                      "Invalid distributor address"}

\* errorMessage.includes(phrase) for one of the validation phrases
IsValidationError(msg) ==
    \E k \in DOMAIN msg : msg[k] \in ValidationPhrases

Response(status, success, id) ==
    [status |-> status, success |-> success, batchId |-> id]

NoResponse == Response(0, FALSE, "")

RouteIdle ==
    [pc |-> "idle", batchId |-> "", userId |-> "", quantity |-> 0,
     internalBatchName |-> JsonString(""), initialLocation |-> "",
     generated |-> {}, error |-> <<>>, chainFailed |-> FALSE,
     deleted |-> <<>>, response |-> NoResponse]

\* the handler returns: its locals are gone, the response is what the client
\* sees
Respond(rt, resp) == [rt EXCEPT !.pc = "done", !.response = resp]

\* the outer catch: the status follows from the error message
CatchAll(rt, msg) ==
    Respond(rt, Response(IF IsValidationError(msg) THEN 400 ELSE 500,
                         FALSE, ""))

\* the 4xx returns before anything is written; 0 when the request passes
\* (the quantities of Bodies are integers, so Number.isInteger holds)
Validate(userId, body) ==
    IF userId = "" THEN 401
    ELSE IF \/ body.name = "" \/ body.cost = 0 \/ body.category = ""
            \/ ~Truthy(body.internalBatchName) \/ body.sku = ""
            \/ body.quantity = 0 \/ body.initialLocation = ""
            \/ body.distributorAddress = ""
    THEN 400
    ELSE IF body.cost <= 0 \/ body.quantity <= 0 THEN 400
    ELSE IF ~isAddress(body.distributorAddress) THEN 400
    ELSE 0

\* SupabaseService.createProduct and deleteProduct on the table
InsertProduct(table, id, userId) == table \cup {[id |-> id, user_id |-> userId]}

DeleteProduct(table, id, userId) ==
    {row \in table : ~(row.id = id /\ row.user_id = userId)}

\* a fresh request record: the locals of the previous request are gone
NewRequest == [RouteIdle EXCEPT !.generated = route.generated]

\* POST up to the database write: authentication, validation, uuidv4() and
\* createProduct, which returns null when the insert fails
RouteReceive ==
    /\ route.pc \in {"idle", "done"}
    /\ \E userId \in RouteUsers, body \in Bodies :
          LET v == Validate(userId, body) IN
          IF v # 0
          THEN /\ route' = Respond(NewRequest, Response(v, FALSE, ""))
               /\ products' = products
          ELSE \E id \in Uuids \ route.generated, inserted \in BOOLEAN :
                 LET rt == [NewRequest EXCEPT
                              !.batchId = id, !.userId = userId,
                              !.quantity = body.quantity,
                              !.internalBatchName = body.internalBatchName,
                              !.initialLocation = body.initialLocation,
                              !.generated = @ \cup {id}]
                 IN  IF inserted
                     THEN /\ products' = InsertProduct(products, id, userId)
                          /\ route' = [rt EXCEPT !.pc = "product"]
                     ELSE /\ products' = products
                          /\ route' = CatchAll(rt,
                                 <<"Failed to create product in Supabase or retrieve its ID">>)
    /\ UNCHANGED <<manufacturer, distributor, retailer, batches, allBatchIds,
                   userBatches, events>>

\* what getContractInstance, the encoding of the arguments or the
\* transaction throws; <<>> when the transaction is mined
ChainError(signer, up, r) ==
    IF signer = NoKey THEN <<"Private key not configured">>
    ELSE IF route.internalBatchName.type # "string"
    THEN <<"invalid string value (value=[ ", route.internalBatchName.text,
           " ])">>
    ELSE IF ~up THEN <<"could not detect network">>
    ELSE IF ~r.ok THEN <<"execution reverted: ", r.err>>
    ELSE <<>>

\* POST, step 2: createBatch on the contract under the product's id; the
\* success response, or the inner catch is entered
RouteCreateBatch ==
    /\ route.pc = "product"
    /\ \E signer \in RouteSigners, up \in BOOLEAN, ts \in Timestamps :
          LET text == IF route.internalBatchName.type = "string"
                      THEN route.internalBatchName.text ELSE "L1"
              r == createBatch(World, IF signer = NoKey THEN ZeroAddress
                                      ELSE signer,
                               route.batchId, route.quantity, route.userId,
                               text, route.initialLocation, ts)
              e == ChainError(signer, up, r)
          IN  IF e = <<>>
              THEN /\ StoreWorld(r)
                   /\ route' = Respond(route, Response(200, TRUE,
                                                       route.batchId))
              ELSE /\ route' = [route EXCEPT !.pc = "cleanup", !.error = e,
                                            !.chainFailed = TRUE]
                   /\ UNCHANGED <<manufacturer, distributor, retailer,
                                  batches, allBatchIds, userBatches, events>>
    /\ products' = products

\* POST, the inner catch: deleteProduct, whose failure is only logged, then
\* the error is thrown on to the outer catch
RouteCleanup ==
    /\ route.pc = "cleanup"
    /\ \E removed \in BOOLEAN :
          /\ products' = IF removed
                         THEN DeleteProduct(products, route.batchId,
                                            route.userId)
                         ELSE products
          /\ route' = CatchAll([route EXCEPT !.deleted = Append(@, route.batchId)],
                               <<"Blockchain transaction failed: ">>
                                   \o route.error)
    /\ UNCHANGED <<manufacturer, distributor, retailer, batches, allBatchIds,
                   userBatches, events>>

(***************************************************************************)
(* The state machine                                                       *)
(***************************************************************************)
\* constructor(_distributor, _retailer): neither argument is checked
Init ==
    /\ manufacturer \in Deployers
    /\ distributor \in Addr
    /\ retailer \in Addr
    /\ batches = [id \in BatchIdInputs |-> EmptyBatch]
    /\ allBatchIds = <<>>
    /\ userBatches = [u \in UserIds |-> <<>>]
    /\ events = <<>>
    /\ products = {}
    /\ route = RouteIdle

\* the model's bounds: a transaction that would outgrow them is not explored
InBounds(p, r) ==
    /\ Len(r.w.events) <= p.maxEvents
    /\ \A id \in BatchIdInputs : Len(r.w.batches[id].history) <= p.maxHistory

CreateBatch(p) ==
    \E sender \in Senders, id \in p.ids, qty \in p.quantities,
       uid \in p.users, name \in p.names, loc \in p.createLocs,
       ts \in p.timestamps :
        LET r == createBatch(World, sender, id, qty, uid, name, loc, ts)
        IN  /\ InBounds(p, r)
            /\ Store(r)

UpdateBatchStatus(p) ==
    \E sender \in Senders, id \in p.ids, newStatus \in Status,
       loc \in p.locs :
        LET r == updateBatchStatus(World, sender, id, newStatus, loc)
        IN  /\ InBounds(p, r)
            /\ Store(r)

SetDistributor(p) ==
    \E sender \in Senders, a \in Addr :
        LET r == setDistributor(World, sender, a)
        IN  /\ InBounds(p, r)
            /\ Store(r)

SetRetailer(p) ==
    \E sender \in Senders, a \in Addr :
        LET r == setRetailer(World, sender, a)
        IN  /\ InBounds(p, r)
            /\ Store(r)

UpdateBatchHolder(p) ==
    \E sender \in Senders, id \in p.ids, a \in Addr :
        LET r == updateBatchHolder(World, sender, id, a)
        IN  /\ InBounds(p, r)
            /\ Store(r)

Next ==
    \/ CreateBatch(Wide)
    \/ UpdateBatchStatus(Wide)
    \/ SetDistributor(Wide)
    \/ SetRetailer(Wide)
    \/ UpdateBatchHolder(Wide)

Spec == Init /\ [][Next]_vars

NextLifecycle ==
    \/ CreateBatch(Deep)
    \/ UpdateBatchStatus(Deep)
    \/ SetDistributor(Deep)
    \/ SetRetailer(Deep)
    \/ UpdateBatchHolder(Deep)

SpecLifecycle == Init /\ [][NextLifecycle]_vars

NextHandling ==
    \/ CreateBatch(Mid)
    \/ UpdateBatchStatus(Mid)
    \/ SetDistributor(Mid)
    \/ SetRetailer(Mid)
    \/ UpdateBatchHolder(Mid)

SpecHandling == Init /\ [][NextHandling]_vars

\* the web application creating batches on a ledger nobody else writes to
NextRoute ==
    \/ RouteReceive
    \/ RouteCreateBatch
    \/ RouteCleanup

SpecRoute == Init /\ [][NextRoute]_vars

(***************************************************************************)
(* The error kinds of the ledger, as the sets of revert messages of the    *)
(* contract that stand for them.                                           *)
(***************************************************************************)
AlreadyExists == {"Batch ID already exists"}

NotFound == {"Batch does not exist"}

InvalidArgument == {"Batch ID cannot be empty",
                    "Quantity must be greater than zero",
                    "Invalid address", "Invalid holder address"}

InvalidTransition == {"Invalid status transition to in transit",
                      "Batch must be in transit",
                      "Batch must be in transit from distributor",
                      "Batch must be at retailer",
                      "Invalid status transition"}

Unauthorized == {"Caller does not have the required role",
                 "Only manufacturer or distributor can mark as in transit",
                 "Only distributor can receive batch",
                 "Only retailer can receive batch",
                 "Only retailer can deliver to consumer"}

ExistingIds == {id \in BatchIdInputs : batchExists(World, id)}

(***************************************************************************)
(* Claims                                                                  *)
(***************************************************************************)

\* C1: in every reachable state, createBatch called by the manufacturer with
\* a non-empty unused id, a quantity > 0 and any ownerRef, label and location
\* succeeds, and right after it the batch exists with status Created, holder
\* = manufacturer, location = the initial location and a history of exactly
\* one entry (getBatch reports the status as "manufactured").
C1_CreateBatchEffect ==
    \A id \in BatchIdInputs, qty \in Quantities, uid \in UserIds,
       name \in Names, loc \in Locations, ts \in Timestamps :
        (id # "" /\ ~batchExists(World, id) /\ qty > 0) =>
            LET r == createBatch(World, manufacturer, id, qty, uid, name, loc, ts)
                b == r.w.batches[id]
            IN  /\ r.ok
                /\ batchExistsView(r.w, id)
                /\ b.status = Created
                /\ b.currentHolder = manufacturer
                /\ b.currentLocation = loc
                /\ Len(b.history) = 1
                /\ getBatch(r.w, id).ok
                /\ getBatch(r.w, id).status = "manufactured"
                /\ getBatch(r.w, id).currentHolder = r.w.manufacturer
                /\ getBatch(r.w, id).currentLocation = loc

\* C1 witness: B2 has just been created at "Depot" after B1, and is Created,
\* held by the manufacturer, with one history entry.
C1_Witness ==
    /\ allBatchIds = <<"B1", "B2">>
    /\ events[Len(events)].name = "BatchCreated"
    /\ events[Len(events)].batchId = "B2"
    /\ batches["B2"].status = Created
    /\ batches["B2"].currentHolder = manufacturer
    /\ batches["B2"].currentLocation = "Depot"
    /\ Len(batches["B2"].history) = 1

\* C2: in every reachable state, createBatch called by the manufacturer with
\* an id that is already present fails with AlreadyExists whatever the other
\* arguments are, and leaves the whole ledger (batches, both indexes, event
\* log, roles) as it was; and no id is registered twice.
C2_DuplicateCreateRejected ==
    /\ \A id \in ExistingIds, qty \in Quantities, uid \in UserIds,
          name \in Names, loc \in Locations, ts \in Timestamps :
            LET r == createBatch(World, manufacturer, id, qty, uid, name, loc, ts)
            IN  /\ ~r.ok
                /\ r.err \in AlreadyExists
                /\ r.w = World
    /\ \A i, j \in DOMAIN allBatchIds :
            allBatchIds[i] = allBatchIds[j] => i = j
    /\ \A id \in ExistingIds : batches[id].batchId = id

\* C2 witness: B1 was created for u1 and has since been dispatched; creating
\* B1 again, for another owner and location, is rejected as a duplicate.
C2_Witness ==
    /\ batchExists(World, "B1")
    /\ batches["B1"].userId = "u1"
    /\ batches["B1"].status = InTransit
    /\ createBatch(World, manufacturer, "B1", 100, "u2", "L1", "Depot", 1).err
           \in AlreadyExists

\* the number of entries of history h that equal msg
CountOf(h, msg) == Cardinality({k \in DOMAIN h : h[k] = msg})

\* the transition table of the lifecycle: (from, to) pairs
OneStep == {<<Created, InTransit>>,
            <<InTransit, DeliveredToDistributor>>,
            <<DeliveredToDistributor, InTransit>>,
            <<InTransit, DeliveredToRetailer>>,
            <<DeliveredToRetailer, DeliveredToConsumer>>}

\* P holds of the outcome of every call that can be made in this state
EveryCall(P(_)) ==
    /\ \A s \in Senders, id \in BatchIdInputs, qty \in Quantities,
          uid \in UserIds, name \in Names, loc \in Locations,
          ts \in Timestamps :
            P(createBatch(World, s, id, qty, uid, name, loc, ts))
    /\ \A s \in Senders, id \in BatchIdInputs, t \in Status,
          loc \in Locations :
            P(updateBatchStatus(World, s, id, t, loc))
    /\ \A s \in Senders, a \in Addr : P(setDistributor(World, s, a))
    /\ \A s \in Senders, a \in Addr : P(setRetailer(World, s, a))
    /\ \A s \in Senders, id \in BatchIdInputs, a \in Addr :
            P(updateBatchHolder(World, s, id, a))

\* C3: a step that takes a batch from Created to InTransit is always made by
\* the manufacturer (the emitted event names the caller).
C3_OnlyManufacturerDispatchesCreated ==
    [][\A id \in BatchIdInputs :
          (batchExists(World, id) /\ batches[id].status = Created
             /\ batches'[id].status = InTransit)
          => events'[Len(events')].by = manufacturer]_vars

\* C4: a step that takes a batch from DeliveredToDistributor to InTransit is
\* always made by the distributor (the emitted event names the caller).
C4_OnlyDistributorDispatchesReceived ==
    [][\A id \in BatchIdInputs :
          (batchExists(World, id)
             /\ batches[id].status = DeliveredToDistributor
             /\ batches'[id].status = InTransit)
          => events'[Len(events')].by = distributor]_vars

\* C5: in every reachable state, for every existing batch: a call for
\* DeliveredToDistributor on an InTransit batch by anyone but the distributor,
\* a call for DeliveredToRetailer on an InTransit batch by anyone but the
\* retailer, and a call for DeliveredToConsumer on a DeliveredToRetailer
\* batch by anyone but the retailer, fails and changes nothing; and whenever
\* one of these three calls succeeds its caller is that role.
C5_ReceivingEdgesSingleRole ==
    \A id \in ExistingIds, s \in Senders, loc \in Locations :
        LET toD == updateBatchStatus(World, s, id, DeliveredToDistributor, loc)
            toR == updateBatchStatus(World, s, id, DeliveredToRetailer, loc)
            toC == updateBatchStatus(World, s, id, DeliveredToConsumer, loc)
        IN  /\ batches[id].status = InTransit =>
                /\ s # distributor => (~toD.ok /\ toD.w = World)
                /\ s # retailer => (~toR.ok /\ toR.w = World)
                /\ s = distributor => toD.ok
                /\ s = retailer => toR.ok
            /\ batches[id].status = DeliveredToRetailer =>
                /\ s # retailer => (~toC.ok /\ toC.w = World)
                /\ s = retailer => toC.ok
            /\ toD.ok => s = distributor
            /\ toR.ok => s = retailer
            /\ toC.ok => s = retailer

\* C5 witness: B1 went through the receiving edges up to DeliveredToRetailer,
\* and an account that is not the retailer is refused the sale.
C5_Witness ==
    /\ batches["B1"].status = DeliveredToRetailer
    /\ CountOf(batches["B1"].history, "Delivered to distributor") = 1
    /\ \E s \in Senders :
          /\ s # retailer
          /\ updateBatchStatus(World, s, "B1", DeliveredToConsumer, "Depot").err
                 = "Only retailer can deliver to consumer"

\* C6: a batch that is DeliveredToRetailer has been delivered to the
\* distributor and then shipped by the distributor before.
C6_NoSkippedTransition ==
    \A id \in ExistingIds :
        batches[id].status = DeliveredToRetailer =>
            \E i, j \in DOMAIN batches[id].history :
                /\ i < j
                /\ batches[id].history[i] = "Delivered to distributor"
                /\ batches[id].history[j] = "Shipped by distributor to retailer"

\* C7: a batch enters DeliveredToDistributor at most once, is shipped at most
\* once from each of Created and DeliveredToDistributor, and has at most
\* five status transitions.
C7_LinearChain ==
    \A id \in ExistingIds :
        LET h == batches[id].history IN
        /\ CountOf(h, "Delivered to distributor") <= 1
        /\ CountOf(h, "Shipped by manufacturer to distributor") <= 1
        /\ CountOf(h, "Shipped by distributor to retailer") <= 1
        /\ Cardinality({k \in DOMAIN events :
                           /\ events[k].name = "BatchStatusUpdated"
                           /\ events[k].batchId = id}) <= 5

\* C8: in every reachable state, for a batch that is DeliveredToConsumer
\* every updateBatchStatus call, by every caller and for every target, fails
\* and changes nothing, and no call of any function leaves the batch with
\* another status.
C8_ConsumerIsTerminal ==
    \A id \in ExistingIds :
        batches[id].status = DeliveredToConsumer =>
            /\ \A s \in Senders, t \in Status, loc \in Locations :
                  LET r == updateBatchStatus(World, s, id, t, loc)
                  IN  ~r.ok /\ r.w = World
            /\ LET Stays(r) == r.w.batches[id].status = DeliveredToConsumer
               IN  EveryCall(Stays)

\* C8 witness: B1 has reached DeliveredToConsumer through the five
\* transitions and the retailer's repeated sale is refused.
C8_Witness ==
    /\ batches["B1"].status = DeliveredToConsumer
    /\ Len(batches["B1"].history) = 6
    /\ ~updateBatchStatus(World, retailer, "B1", DeliveredToConsumer, "Depot").ok

\* C9: in every reachable state, for every existing batch, an
\* updateBatchStatus call whose target is not one step of the transition
\* table away from the batch's status fails with InvalidTransition whoever
\* calls, and the batch's history is as before.
C9_UnreachableTargetRejected ==
    \A id \in ExistingIds, s \in Senders, t \in Status, loc \in Locations :
        <<batches[id].status, t>> \notin OneStep =>
            LET r == updateBatchStatus(World, s, id, t, loc)
            IN  /\ ~r.ok
                /\ r.err \in InvalidTransition
                /\ r.w.batches[id].history = batches[id].history

\* C9 witness: B1 is at the distributor, and both the retailer's and a
\* non-retailer's call for DeliveredToRetailer are refused for the status.
C9_Witness ==
    /\ batches["B1"].status = DeliveredToDistributor
    /\ retailer # ZeroAddress
    /\ Len(batches["B1"].history) = 3
    /\ \A s \in Senders :
          updateBatchStatus(World, s, "B1", DeliveredToRetailer, "Depot").err
              = "Batch must be in transit from distributor"
    /\ \E s \in Senders : s # retailer

C11_StatusUpdateEffect ==
    \A id \in ExistingIds, s \in Senders, t \in Status, loc \in Locations :
        LET r == updateBatchStatus(World, s, id, t, loc)
            b == r.w.batches[id]
        IN  r.ok =>
              /\ b.status = t
              /\ b.currentLocation = loc
              /\ t = DeliveredToDistributor => b.currentHolder = distributor
              /\ t = DeliveredToRetailer => b.currentHolder = retailer
              /\ t \in {InTransit, DeliveredToConsumer} =>
                     b.currentHolder = batches[id].currentHolder
              /\ getBatch(r.w, id).status = _getStatusString(t)
              /\ getBatch(r.w, id).currentLocation = loc

\* C11 witness: B1, created at "Plant A", was dispatched and then received
\* by a distributor other than the manufacturer: it is at "Depot", held by
\* the distributor.
C11_Witness ==
    /\ batches["B1"].status = DeliveredToDistributor
    /\ Len(batches["B1"].history) = 3
    /\ distributor # manufacturer
    /\ batches["B1"].currentHolder = distributor
    /\ batches["B1"].currentLocation = "Depot"

\* the BatchStatusUpdated events of batch id in log es
StatusEventsOf(es, id) ==
    {k \in DOMAIN es : es[k].name = "BatchStatusUpdated" /\ es[k].batchId = id}

\* h2 is h1, or h1 with one entry appended
SameOrOneMore(h1, h2) ==
    \/ h2 = h1
    \/ Len(h2) = Len(h1) + 1 /\ SubSeq(h2, 1, Len(h1)) = h1

\* C12: in every reachable state the history of every existing batch starts
\* with the creation entry and has one entry more than the batch's
\* successful status updates and holder updates; every call leaves every
\* history as it was or with one entry appended at the end, a failed call
\* leaves it as it was, and a successful updateBatchStatus or
\* updateBatchHolder on the batch appends exactly one entry.
C12_HistoryAppendOnly ==
    \A id \in ExistingIds :
        LET h == batches[id].history
            Grows(r) == /\ SameOrOneMore(h, r.w.batches[id].history)
                        /\ ~r.ok => r.w.batches[id].history = h
        IN  /\ Len(h) >= 1
            /\ h[1] = "Batch created by manufacturer"
            /\ Len(h) = 1 + Cardinality(StatusEventsOf(events, id))
                          + CountOf(h, "Holder updated by manufacturer")
            /\ EveryCall(Grows)
            /\ \A s \in Senders, t \in Status, loc \in Locations :
                  LET r == updateBatchStatus(World, s, id, t, loc)
                  IN  r.ok => Len(r.w.batches[id].history) = Len(h) + 1
            /\ \A s \in Senders, a \in Addr :
                  LET r == updateBatchHolder(World, s, id, a)
                  IN  r.ok => r.w.batches[id].history
                                = Append(h, "Holder updated by manufacturer")

\* C12 witness: after a dispatch, a holder update and a receipt the history
\* of B1 has the four entries in call order.
C12_Witness ==
    batches["B1"].history = <<"Batch created by manufacturer",
                              "Shipped by manufacturer to distributor",
                              "Holder updated by manufacturer",
                              "Delivered to distributor">>

\* C13: in every reachable state, for every existing batch, an
\* updateBatchStatus call whose target is the status the batch already has
\* fails for every caller and leaves the ledger (history and event log
\* included) as it was.
C13_ResubmissionRejected ==
    \A id \in ExistingIds, s \in Senders, loc \in Locations :
        LET r == updateBatchStatus(World, s, id, batches[id].status, loc)
        IN  /\ ~r.ok
            /\ r.err # ""
            /\ r.w = World

\* C13 witness: B1 has been dispatched by the manufacturer, whose second
\* dispatch is refused for the status.
C13_Witness ==
    /\ batches["B1"].status = InTransit
    /\ Len(batches["B1"].history) = 2
    /\ Len(events) = 2
    /\ events[2].by = manufacturer
    /\ updateBatchStatus(World, manufacturer, "B1", InTransit, "Depot").err
           = "Invalid status transition to in transit"

Received == {DeliveredToDistributor, DeliveredToRetailer}

\* the holder a successful receipt with target t writes
Receiver(t) == IF t = DeliveredToDistributor THEN distributor ELSE retailer

\* C14: in every reachable state, for every batch that is InTransit and any
\* two updateBatchStatus calls with a received target applied one after the
\* other, at most one succeeds; when the first succeeds the second is
\* rejected with a revert message and changes nothing; and the batch's
\* status and holder are those written by the call that succeeded.
C14_ReceiveRace ==
    \A id \in ExistingIds :
        batches[id].status = InTransit =>
            \A s1, s2 \in Senders, t1, t2 \in Received, l1, l2 \in Locations :
                LET r1 == updateBatchStatus(World, s1, id, t1, l1)
                    r2 == updateBatchStatus(r1.w, s2, id, t2, l2)
                IN  /\ ~(r1.ok /\ r2.ok)
                    /\ r1.ok =>
                          /\ ~r2.ok
                          /\ r2.err # ""
                          /\ r2.w = r1.w
                          /\ r2.w.batches[id].status = t1
                          /\ r2.w.batches[id].currentHolder = Receiver(t1)
                    /\ (~r1.ok /\ r2.ok) =>
                          /\ r1.w = World
                          /\ r2.w.batches[id].status = t2
                          /\ r2.w.batches[id].currentHolder = Receiver(t2)

\* C14 witness: the distributor has received B1, which it now holds, and
\* the call of a retailer that is another account is refused.
C14_Witness ==
    /\ batches["B1"].status = DeliveredToDistributor
    /\ batches["B1"].currentHolder = distributor
    /\ events[Len(events)].newStatus = "delivered to distributor"
    /\ retailer \notin {ZeroAddress, distributor}
    /\ ~updateBatchStatus(World, retailer, "B1", DeliveredToRetailer, "Depot").ok

\* C15: in every reachable state, createBatch called by any account other
\* than the manufacturer fails with Unauthorized whatever its arguments are
\* and leaves the ledger as it was: no batch, no index entry, no event.
C15_CreateByOthersRejected ==
    \A s \in Senders, id \in BatchIdInputs, qty \in Quantities,
       uid \in UserIds, name \in Names, loc \in Locations, ts \in Timestamps :
        s # manufacturer =>
            LET r == createBatch(World, s, id, qty, uid, name, loc, ts)
            IN  /\ ~r.ok
                /\ r.err \in Unauthorized
                /\ r.w = World
                /\ batchExistsView(r.w, id) = batchExistsView(World, id)
                /\ getBatchCount(r.w) = getBatchCount(World)

\* C15 witness: B1 exists, and the distributor, another account than the
\* manufacturer, is refused the creation of the unused id B2.
C15_Witness ==
    /\ batchExistsView(World, "B1")
    /\ ~batchExistsView(World, "B2")
    /\ distributor \notin {ZeroAddress, manufacturer}
    /\ createBatch(World, distributor, "B2", 100, "u1", "L1", "Depot", 1).err
           = "Caller does not have the required role"

\* C16 as stated: every createBatch call of the manufacturer with an empty
\* id or with quantity 0 fails with InvalidArgument and creates nothing, and
\* every existing batch has a non-empty id and a quantity > 0.
C16_InvalidCreateIsInvalidArgument ==
    /\ \A id \in BatchIdInputs, qty \in Quantities, uid \in UserIds,
          name \in Names, loc \in Locations, ts \in Timestamps :
            (id = "" \/ qty = 0) =>
                LET r == createBatch(World, manufacturer, id, qty, uid, name,
                                     loc, ts)
                IN  /\ ~r.ok
                    /\ r.err \in InvalidArgument
                    /\ r.w = World
    /\ \A id \in BatchIdInputs :
            batchExistsView(World, id) =>
                (batches[id].batchId # "" /\ batches[id].quantity > 0)

\* C16 amended: every createBatch call of the manufacturer with an empty id,
\* or with quantity 0 and an id that is not present, fails with
\* InvalidArgument; with quantity 0 and an id that is present it fails with
\* AlreadyExists; in each case it creates nothing; and every existing batch
\* has a non-empty id and a quantity > 0.
C16_InvalidCreateRejected ==
    /\ \A id \in BatchIdInputs, qty \in Quantities, uid \in UserIds,
          name \in Names, loc \in Locations, ts \in Timestamps :
            (id = "" \/ qty = 0) =>
                LET r == createBatch(World, manufacturer, id, qty, uid, name,
                                     loc, ts)
                IN  /\ ~r.ok
                    /\ r.w = World
                    /\ id = "" => r.err \in InvalidArgument
                    /\ (id # "" /\ ~batchExistsView(World, id)) =>
                           r.err \in InvalidArgument
                    /\ (id # "" /\ batchExistsView(World, id)) =>
                           r.err \in AlreadyExists
    /\ ~batchExistsView(World, "")
    /\ \A id \in BatchIdInputs :
            batchExistsView(World, id) =>
                (batches[id].batchId # "" /\ batches[id].quantity > 0)

\* C16 witness: B1 exists with quantity 100; the manufacturer's creation of
\* B2 with quantity 0 and of the empty id are refused as invalid, and that
\* of B1 with quantity 0 as a duplicate.
C16_Witness ==
    /\ batchExistsView(World, "B1")
    /\ batches["B1"].quantity = 100
    /\ ~batchExistsView(World, "B2")
    /\ createBatch(World, manufacturer, "B2", 0, "u1", "L1", "Depot", 1).err
           = "Quantity must be greater than zero"
    /\ createBatch(World, manufacturer, "", 100, "u1", "L1", "Depot", 1).err
           = "Batch ID cannot be empty"
    /\ createBatch(World, manufacturer, "B1", 0, "u1", "L1", "Depot", 1).err
           = "Batch ID already exists"

\* C17: in every reachable state, updateBatchStatus on an id that was never
\* created fails with NotFound for every caller, target and location, and
\* leaves the ledger as it was: the id still does not exist and the count
\* and both indexes are unchanged.
C17_UpdateOfAbsentRejected ==
    \A id \in BatchIdInputs, s \in Senders, t \in Status, loc \in Locations :
        ~batchExistsView(World, id) =>
            LET r == updateBatchStatus(World, s, id, t, loc)
            IN  /\ ~r.ok
                /\ r.err \in NotFound
                /\ ~batchExistsView(r.w, id)
                /\ getBatchCount(r.w) = getBatchCount(World)
                /\ getAllBatchIds(r.w) = getAllBatchIds(World)
                /\ \A u \in UserIds :
                      getBatchesByUser(r.w, u) = getBatchesByUser(World, u)
                /\ r.w = World

\* C17 witness: B1 exists and B2 does not; the manufacturer's dispatch of B2
\* is refused as not found.
C17_Witness ==
    /\ batchExistsView(World, "B1")
    /\ ~batchExistsView(World, "B2")
    /\ getBatchCount(World) = 1
    /\ updateBatchStatus(World, manufacturer, "B2", InTransit, "Depot").err
           = "Batch does not exist"

\* the fields of a batch that createBatch sets and nothing else should write
CreationFields(b) ==
    <<b.batchId, b.quantity, b.userId, b.internalBatchName,
      b.manufacturingDate>>

\* C18: in every reachable state, for every existing batch, no call of any
\* function changes the batch's id, quantity, ownerRef, label or creation
\* date, and id, label, quantity and ownerRef are still the ones its
\* BatchCreated event carries.
C18_CreationFieldsImmutable ==
    \A id \in BatchIdInputs :
        batchExistsView(World, id) =>
            LET Same(r) == CreationFields(r.w.batches[id])
                             = CreationFields(batches[id])
            IN  /\ EveryCall(Same)
                /\ batches[id].batchId = id
                /\ \E k \in DOMAIN events :
                      events[k] = BatchCreated(id,
                                               batches[id].internalBatchName,
                                               batches[id].quantity,
                                               batches[id].userId)

\* C18 witness: B1 has been dispatched, received and had its holder updated,
\* and still has the quantity, owner, label and date it was created with.
C18_Witness ==
    /\ batches["B1"].status = DeliveredToDistributor
    /\ CountOf(batches["B1"].history, "Holder updated by manufacturer") = 1
    /\ CreationFields(batches["B1"]) = <<"B1", 100, "u1", "L1", 1>>
    /\ distributor # retailer

IsBatchCreated(e) == e.name = "BatchCreated"

\* the ids of the BatchCreated events of log es, in log order
CreatedIds(es) ==
    LET sel == SelectSeq(es, IsBatchCreated)
    IN  [k \in 1..Len(sel) |-> sel[k].batchId]

\* the ids of index ids whose batch belongs to owner u, in index order
OwnedBy(w, ids, u) ==
    LET Owned(id) == w.batches[id].userId = u
    IN  SelectSeq(ids, Owned)

\* C19: in every reachable state the global index holds exactly the ids of
\* the existing batches, each once, in the order of their BatchCreated
\* events; the index of every owner holds exactly the ids of the global
\* index whose batch has that ownerRef, each once and in the same order; and
\* getBatchCount is the number of BatchCreated events.
C19_IndexConsistency ==
    /\ {getAllBatchIds(World)[k] : k \in DOMAIN getAllBatchIds(World)}
           = {id \in BatchIdInputs : batchExistsView(World, id)}
    /\ \A i, j \in DOMAIN allBatchIds :
            allBatchIds[i] = allBatchIds[j] => i = j
    /\ getAllBatchIds(World) = CreatedIds(events)
    /\ \A u \in UserIds :
            getBatchesByUser(World, u) = OwnedBy(World, allBatchIds, u)
    /\ getBatchCount(World) = Len(SelectSeq(events, IsBatchCreated))
    /\ getBatchCount(World)
           = Cardinality({id \in BatchIdInputs : batchExistsView(World, id)})

\* C19 witness: B2 was created for u2 and then B1 for u1.
C19_Witness ==
    /\ getAllBatchIds(World) = <<"B2", "B1">>
    /\ getBatchesByUser(World, "u1") = <<"B1">>
    /\ getBatchesByUser(World, "u2") = <<"B2">>
    /\ getBatchCount(World) = 2

\* C20: in every reachable state batchExistsView(id) is true exactly when
\* the batch's manufacturingDate is not 0, which is exactly when getBatch
\* and getBatchHistory answer; every id of the global index exists; and no
\* call of any function makes an existing id stop existing.
C20_NeverDeleted ==
    /\ \A id \in BatchIdInputs :
          /\ batchExistsView(World, id) <=> batches[id].manufacturingDate # 0
          /\ batchExistsView(World, id) <=> getBatch(World, id).ok
          /\ batchExistsView(World, id) <=> getBatchHistory(World, id).ok
          /\ batchExistsView(World, id) =>
                LET StillExists(r) == batchExistsView(r.w, id)
                IN  EveryCall(StillExists)
    /\ \A k \in DOMAIN allBatchIds : batchExistsView(World, allBatchIds[k])

\* C20 witness: B1 still exists, with the creation date it was given, after
\* a holder update, a dispatch and a receipt by the retailer.
C20_Witness ==
    /\ batchExistsView(World, "B1")
    /\ getAllBatchIds(World) = <<"B1">>
    /\ batches["B1"].manufacturingDate = 1
    /\ batches["B1"].history = <<"Batch created by manufacturer",
                                 "Holder updated by manufacturer",
                                 "Shipped by manufacturer to distributor",
                                 "Delivered to retailer">>

\* C21: in every reachable state the manufacturer is the account that
\* deployed the contract, and no call of any function, by any caller and
\* whether it succeeds or fails, leaves the ledger with another manufacturer.
C21_ManufacturerFixed ==
    LET KeepsManufacturer(r) == r.w.manufacturer = manufacturer
    IN  /\ manufacturer \in Deployers
        /\ EveryCall(KeepsManufacturer)

\* C21 witness: the manufacturer is still the deployer after both other
\* roles were set to the two other accounts, a batch was created and its
\* holder was updated.
C21_Witness ==
    /\ manufacturer = 1
    /\ distributor = 3
    /\ retailer = 2
    /\ batches["B1"].history = <<"Batch created by manufacturer",
                                 "Holder updated by manufacturer">>
    /\ batches["B1"].currentHolder = 2

\* C22: in every reachable state, setDistributor and setRetailer called by
\* any account other than the manufacturer (the current distributor and
\* retailer included) fail with Unauthorized and leave the ledger as it was,
\* a call of them that succeeds is the manufacturer's, and no call of
\* createBatch, updateBatchStatus or updateBatchHolder changes the
\* distributor or the retailer.
C22_RolesSetByManufacturerOnly ==
    LET KeepsRoles(r) == /\ r.w.distributor = distributor
                         /\ r.w.retailer = retailer
        Refused(r) == ~r.ok /\ r.err \in Unauthorized /\ r.w = World
    IN  /\ \A s \in Senders, a \in Addr :
              /\ s # manufacturer => Refused(setDistributor(World, s, a))
              /\ s # manufacturer => Refused(setRetailer(World, s, a))
              /\ setDistributor(World, s, a).ok => s = manufacturer
              /\ setRetailer(World, s, a).ok => s = manufacturer
              /\ KeepsRoles(setDistributor(World, s, a))
                    \/ (s = manufacturer
                        /\ setDistributor(World, s, a).w.retailer = retailer)
              /\ KeepsRoles(setRetailer(World, s, a))
                    \/ (s = manufacturer
                        /\ setRetailer(World, s, a).w.distributor = distributor)
        /\ \A s \in Senders, id \in BatchIdInputs, qty \in Quantities,
              uid \in UserIds, name \in Names, loc \in Locations,
              ts \in Timestamps :
                KeepsRoles(createBatch(World, s, id, qty, uid, name, loc, ts))
        /\ \A s \in Senders, id \in BatchIdInputs, t \in Status,
              loc \in Locations :
                KeepsRoles(updateBatchStatus(World, s, id, t, loc))
        /\ \A s \in Senders, id \in BatchIdInputs, a \in Addr :
                KeepsRoles(updateBatchHolder(World, s, id, a))

\* C22 witness: the distributor and the retailer are two accounts other than
\* the manufacturer, a batch exists, and each of them is refused when it
\* tries to name the other's, or its own, successor.
C22_Witness ==
    /\ distributor = 2
    /\ retailer = 3
    /\ batchExistsView(World, "B1")
    /\ ~setDistributor(World, distributor, 3).ok
    /\ ~setDistributor(World, retailer, 3).ok
    /\ ~setRetailer(World, retailer, 2).ok
    /\ ~setRetailer(World, distributor, 2).ok
    /\ setDistributor(World, manufacturer, 3).ok

C24_RolesNonNull ==
    /\ distributor # ZeroAddress
    /\ retailer # ZeroAddress

\* C25: in every reachable state, for every updateBatchStatus call that
\* succeeds, the label of the BatchStatusUpdated event it emits is the
\* status that getBatch returns for the batch right after the call and is
\* the label of the target status; the five labels are pairwise different.
C25_LabelRoundTrip ==
    /\ \A id \in BatchIdInputs, s \in Senders, t \in Status,
          loc \in Locations :
            LET r == updateBatchStatus(World, s, id, t, loc)
                e == r.w.events[Len(r.w.events)]
            IN  r.ok =>
                  /\ Len(r.w.events) = Len(events) + 1
                  /\ e.name = "BatchStatusUpdated"
                  /\ e.batchId = id
                  /\ getBatch(r.w, id).ok
                  /\ e.newStatus = getBatch(r.w, id).status
                  /\ e.newStatus = _getStatusString(t)
                  /\ e.newStatus # InvalidStatus
    /\ \A t1, t2 \in Status :
            _getStatusString(t1) = _getStatusString(t2) => t1 = t2

\* C25 witness: the last event of the log says B1 was delivered to the
\* retailer, and getBatch returns that label for B1.
C25_Witness ==
    /\ Len(events) = 3
    /\ events[3].name = "BatchStatusUpdated"
    /\ events[3].batchId = "B1"
    /\ events[3].newStatus = "delivered to retailer"
    /\ getBatch(World, "B1").status = "delivered to retailer"

\* C26: in every reachable state every batch's status is one of the five
\* enumerated values and has a label, no getBatch call fails with "Invalid
\* status", and no updateBatchStatus call, by any caller with any target,
\* fails with "Invalid status".
C26_LabelTableExhaustive ==
    /\ \A t \in Status : _getStatusString(t) # InvalidStatus
    /\ \A id \in BatchIdInputs :
          /\ batches[id].status \in Status
          /\ _getStatusString(batches[id].status) # InvalidStatus
          /\ getBatch(World, id).err # "Invalid status"
          /\ batchExistsView(World, id) => getBatch(World, id).ok
          /\ \A s \in Senders, t \in Status, loc \in Locations :
                updateBatchStatus(World, s, id, t, loc).err # "Invalid status"

\* C26 witness: B1 has reached the last status and getBatch returns its
\* label.
C26_Witness ==
    /\ batches["B1"].status = DeliveredToConsumer
    /\ getBatch(World, "B1").ok
    /\ getBatch(World, "B1").status = "delivered to consumer"

\* C27: in every reachable state the ids of the BatchCreated events, in log
\* order, are getAllBatchIds; every createBatch call that succeeds appends
\* exactly BatchCreated(id, label, quantity, ownerRef) to the log; every
\* updateBatchStatus call that succeeds appends exactly
\* BatchStatusUpdated(id, label of the target, caller, new location); and
\* every call of any function that fails leaves the log as it was.
C27_EventLogMirrorsCommits ==
    LET FailedAppendsNothing(r) == ~r.ok => r.w.events = events
    IN  /\ getAllBatchIds(World) = CreatedIds(events)
        /\ \A k \in DOMAIN events :
              events[k].name \in {"BatchCreated", "BatchStatusUpdated"}
        /\ \A s \in Senders, id \in BatchIdInputs, qty \in Quantities,
              uid \in UserIds, name \in Names, loc \in Locations,
              ts \in Timestamps :
                LET r == createBatch(World, s, id, qty, uid, name, loc, ts)
                IN  r.ok => r.w.events
                              = Append(events, BatchCreated(id, name, qty, uid))
        /\ \A s \in Senders, id \in BatchIdInputs, t \in Status,
              loc \in Locations :
                LET r == updateBatchStatus(World, s, id, t, loc)
                IN  r.ok => r.w.events
                              = Append(events,
                                       BatchStatusUpdated(id, _getStatusString(t),
                                                          s, loc))
        /\ EveryCall(FailedAppendsNothing)

\* C27 witness: the log holds the creation of B1 for u2, its dispatch by the
\* manufacturer and its receipt by the distributor, in that order.
C27_Witness ==
    /\ distributor = 2
    /\ events = <<BatchCreated("B1", "L1", 100, "u2"),
                  BatchStatusUpdated("B1", "in transit", 1, "Depot"),
                  BatchStatusUpdated("B1", "delivered to distributor", 2,
                                     "Depot")>>

\* C28 as stated: in every reachable state, an updateBatchHolder call on an
\* existing batch that succeeds is made by the batch's current holder, and
\* a call by any other account, the manufacturer included, fails with
\* Unauthorized and leaves the holder as it was.
C28_OnlyHolderTransfers ==
    \A id \in BatchIdInputs, s \in Senders, a \in Addr :
        batchExistsView(World, id) =>
            LET r == updateBatchHolder(World, s, id, a)
            IN  /\ r.ok => s = batches[id].currentHolder
                /\ s # batches[id].currentHolder =>
                      /\ ~r.ok
                      /\ r.err \in Unauthorized
                      /\ r.w.batches[id].currentHolder
                            = batches[id].currentHolder

\* C28 amended: in every reachable state, an updateBatchHolder call that
\* succeeds is made by the manufacturer, and a call by any other account,
\* the batch's current holder included, fails with Unauthorized and leaves
\* the ledger, the holder included, as it was.
C28_OnlyManufacturerUpdatesHolder ==
    \A id \in BatchIdInputs, s \in Senders, a \in Addr :
        LET r == updateBatchHolder(World, s, id, a)
        IN  /\ r.ok => s = manufacturer
            /\ s # manufacturer =>
                  /\ ~r.ok
                  /\ r.err \in Unauthorized
                  /\ r.w = World
            /\ (s = manufacturer /\ batchExistsView(World, id)
                  /\ a # ZeroAddress) => r.ok

\* C28 witness: B1 is held by the distributor, account 2, which is refused
\* when it hands the batch on, while the manufacturer, who does not hold
\* it, is allowed to.
C28_Witness ==
    /\ manufacturer = 1
    /\ distributor = 2
    /\ batches["B1"].status = DeliveredToDistributor
    /\ batches["B1"].currentHolder = 2
    /\ updateBatchHolder(World, 2, "B1", 3).err
          = "Caller does not have the required role"
    /\ updateBatchHolder(World, 1, "B1", 3).ok

\* C29 as stated: in every reachable state, for every updateBatchHolder
\* call that succeeds and every new location the caller gives, the batch
\* then has holder = the new holder and location = the new location, the
\* status it had, and one history entry more.
C29_TransferSetsHolderAndLocation ==
    \A id \in BatchIdInputs, s \in Senders, a \in Addr,
       newLocation \in Locations :
        LET r == updateBatchHolder(World, s, id, a)
            b == r.w.batches[id]
        IN  r.ok =>
              /\ b.currentHolder = a
              /\ b.currentLocation = newLocation
              /\ b.status = batches[id].status
              /\ Len(b.history) = Len(batches[id].history) + 1

\* C29 amended: in every reachable state, every updateBatchHolder call that
\* succeeds leaves the batch with holder = the new holder, the location and
\* the status it had, and its history with exactly one entry more, "Holder
\* updated by manufacturer"; nothing else in the ledger changes.
C29_HolderUpdateEffect ==
    \A id \in BatchIdInputs, s \in Senders, a \in Addr :
        LET r == updateBatchHolder(World, s, id, a)
            b == r.w.batches[id]
        IN  r.ok =>
              /\ b.currentHolder = a
              /\ b.currentLocation = batches[id].currentLocation
              /\ b.status = batches[id].status
              /\ b.history = Append(batches[id].history,
                                    "Holder updated by manufacturer")
              /\ r.w = [World EXCEPT !.batches[id].currentHolder = a,
                                     !.batches[id].history = b.history]

\* C29 witness: B1, received by the retailer at the depot, has had its
\* holder updated to account 2 and is still at the depot, delivered to the
\* retailer.
C29_Witness ==
    /\ batches["B1"].history = <<"Batch created by manufacturer",
                                 "Shipped by manufacturer to distributor",
                                 "Delivered to retailer",
                                 "Holder updated by manufacturer">>
    /\ retailer = 3
    /\ batches["B1"].currentHolder = 2
    /\ batches["B1"].currentLocation = "Depot"
    /\ batches["B1"].status = DeliveredToRetailer

\* the transfer event of the specification
BatchTransferred(id, from, to, loc) ==
    [name |-> "BatchTransferred", batchId |-> id, from |-> from, to |-> to,
     location |-> loc]

\* C30: in every reachable state every updateBatchHolder call that succeeds
\* appends one BatchTransferred event with the batch's id, old holder, new
\* holder and location to the log, and the history of a batch has as many
\* holder-update entries as the log has transfer events for it.
C30_HolderChangeHasEvent ==
    /\ \A id \in BatchIdInputs, s \in Senders, a \in Addr :
          LET r == updateBatchHolder(World, s, id, a)
          IN  r.ok =>
                r.w.events
                  = Append(events,
                           BatchTransferred(id, batches[id].currentHolder, a,
                                            r.w.batches[id].currentLocation))
    /\ \A id \in BatchIdInputs :
          CountOf(batches[id].history, "Holder updated by manufacturer")
            = Cardinality({k \in DOMAIN events :
                              /\ events[k].name = "BatchTransferred"
                              /\ events[k].batchId = id})

\* C31: in every reachable state, an updateBatchHolder call of the
\* manufacturer on an existing batch whose new holder is the holder the
\* batch already has fails with InvalidArgument and leaves the history as
\* it was.
C31_SameHolderRejected ==
    \A id \in BatchIdInputs :
        batchExistsView(World, id) =>
            LET r == updateBatchHolder(World, manufacturer, id,
                                       batches[id].currentHolder)
            IN  /\ ~r.ok
                /\ r.err \in InvalidArgument
                /\ r.w.batches[id].history = batches[id].history

\* the ids for which createBatch has succeeded
CreatedSet == {CreatedIds(events)[k] : k \in DOMAIN CreatedIds(events)}

\* what the six read functions return in ledger w
Reads(w) ==
    [exists |-> [id \in BatchIdInputs |-> batchExistsView(w, id)],
     get |-> [id \in BatchIdInputs |-> getBatch(w, id)],
     history |-> [id \in BatchIdInputs |-> getBatchHistory(w, id)],
     all |-> getAllBatchIds(w),
     byUser |-> [u \in UserIds |-> getBatchesByUser(w, u)],
     count |-> getBatchCount(w)]

\* C32: in every reachable state getBatch and getBatchHistory succeed for
\* the ids that were created and fail with NotFound for every other id,
\* batchExistsView is true exactly for the created ids, getBatchCount is
\* their number, and the six read functions return the same after any call
\* that fails as before it.
C32_ReadsStable ==
    LET SameReads(r) == ~r.ok => Reads(r.w) = Reads(World)
    IN  /\ \A id \in BatchIdInputs :
              /\ getBatch(World, id).ok <=> id \in CreatedSet
              /\ getBatchHistory(World, id).ok <=> id \in CreatedSet
              /\ batchExistsView(World, id) <=> id \in CreatedSet
              /\ id \notin CreatedSet =>
                    /\ getBatch(World, id).err \in NotFound
                    /\ getBatchHistory(World, id).err \in NotFound
              /\ id \in CreatedSet =>
                    /\ getBatch(World, id).batchId = id
                    /\ getBatchHistory(World, id).history
                          = batches[id].history
        /\ getBatchCount(World) = Cardinality(CreatedSet)
        /\ EveryCall(SameReads)

\* C32 witness: B1 was created and dispatched and B2 was not created;
\* getBatch and getBatchHistory answer for B1 and fail for B2.
C32_Witness ==
    /\ getBatch(World, "B1").ok
    /\ getBatch(World, "B1").status = "in transit"
    /\ getBatchHistory(World, "B1").ok
    /\ getBatch(World, "B2").err = "Batch does not exist"
    /\ getBatchHistory(World, "B2").err = "Batch does not exist"
    /\ ~batchExistsView(World, "B2")
    /\ getBatchCount(World) = 1

\* the current statuses from which the code lets a batch move to target t
StatusFits(cur, t) ==
    \/ t = InTransit /\ cur \in {Created, DeliveredToDistributor}
    \/ t = DeliveredToDistributor /\ cur = InTransit
    \/ t = DeliveredToRetailer /\ cur = InTransit
    \/ t = DeliveredToConsumer /\ cur = DeliveredToRetailer

\* the callers the code lets ask for target t
CallerFits(s, t) ==
    \/ t = InTransit /\ s \in {manufacturer, distributor}
    \/ t = DeliveredToDistributor /\ s = distributor
    \/ t = DeliveredToRetailer /\ s = retailer
    \/ t = DeliveredToConsumer /\ s = retailer

\* C33: in every reachable state, an updateBatchStatus call on an existing
\* batch for which both the batch's status and the caller are wrong for the
\* target fails with the InvalidTransition error of the status check, not
\* with Unauthorized, and leaves the ledger as it was.
C33_StatusCheckedBeforeCaller ==
    \A id \in BatchIdInputs, s \in Senders, t \in Status, loc \in Locations :
        (batchExistsView(World, id) /\ ~StatusFits(batches[id].status, t)
           /\ ~CallerFits(s, t)) =>
            LET r == updateBatchStatus(World, s, id, t, loc)
            IN  /\ ~r.ok
                /\ r.err \in InvalidTransition
                /\ r.err \notin Unauthorized
                /\ r.w = World

\* C33 witness: B1 is Created and the retailer, who is not the distributor,
\* asks for DeliveredToDistributor and is refused for the status.
C33_Witness ==
    /\ batches["B1"].status = Created
    /\ retailer = 3
    /\ distributor = 2
    /\ updateBatchStatus(World, retailer, "B1", DeliveredToDistributor,
                         "Depot").err = "Batch must be in transit"

\* C34: in every reachable state an updateBatchStatus call with target
\* Created fails with InvalidTransition for every existing batch and every
\* caller, no call of any function leaves a batch that has left Created in
\* Created, and a batch that is Created has no status event in the log.
C34_CreatedOnlyByCreate ==
    \A id \in BatchIdInputs :
        batchExistsView(World, id) =>
            LET NotBackToCreated(r) ==
                    batches[id].status # Created
                        => r.w.batches[id].status # Created
            IN  /\ \A s \in Senders, loc \in Locations :
                      LET r == updateBatchStatus(World, s, id, Created, loc)
                      IN  /\ ~r.ok
                          /\ r.err = "Invalid status transition"
                          /\ r.w = World
                /\ EveryCall(NotBackToCreated)
                /\ batches[id].status = Created
                      => StatusEventsOf(events, id) = {}

\* C34 witness: B1 has been received by the distributor, and the call of
\* each account for target Created is refused.
C34_Witness ==
    /\ batches["B1"].status = DeliveredToDistributor
    /\ \A s \in Senders :
          updateBatchStatus(World, s, "B1", Created, "Depot").err
              = "Invalid status transition"

\* C35: in every reachable state, no call of setDistributor or setRetailer
\* changes a batch, an index or the event log (a received batch keeps its
\* holder); and in the ledger left by the manufacturer's reassignment of a
\* role to a non-zero address, the receipt of an in-transit batch for that
\* role, and the retailer's delivery to the consumer, succeed for the new
\* address and fail for every other account, the previous one included.
C35_ReassignmentTouchesRegistryOnly ==
    /\ \A s \in Senders, a \in Addr :
          /\ setDistributor(World, s, a).w
                = [World EXCEPT !.distributor
                                   = setDistributor(World, s, a).w.distributor]
          /\ setRetailer(World, s, a).w
                = [World EXCEPT !.retailer
                                   = setRetailer(World, s, a).w.retailer]
    /\ \A a \in Addr \ {ZeroAddress}, id \in BatchIdInputs, s \in Senders,
          loc \in Locations :
            LET wd == setDistributor(World, manufacturer, a).w
                wr == setRetailer(World, manufacturer, a).w
            IN  /\ wd.batches[id].currentHolder = batches[id].currentHolder
                /\ wr.batches[id].currentHolder = batches[id].currentHolder
                /\ (batchExistsView(World, id)
                      /\ batches[id].status = InTransit) =>
                      /\ updateBatchStatus(wd, s, id, DeliveredToDistributor,
                                           loc).ok <=> s = a
                      /\ updateBatchStatus(wr, s, id, DeliveredToRetailer,
                                           loc).ok <=> s = a
                /\ (batchExistsView(World, id)
                      /\ batches[id].status = DeliveredToRetailer) =>
                      updateBatchStatus(wr, s, id, DeliveredToConsumer,
                                        loc).ok <=> s = a

\* C35 witness: B1 was received by distributor 2, who still holds it after
\* the distributor role was given to account 3.
C35_Witness ==
    /\ batches["B1"].status = DeliveredToDistributor
    /\ batches["B1"].history = <<"Batch created by manufacturer",
                                 "Shipped by manufacturer to distributor",
                                 "Delivered to distributor">>
    /\ events[Len(events)].by = 2
    /\ batches["B1"].currentHolder = 2
    /\ distributor = 3

\* C36: in every reachable state an updateBatchHolder call succeeds exactly
\* when the caller is the manufacturer, the batch exists and the new holder
\* is not the zero address, whatever the batch's status; when it succeeds
\* the batch has the new holder and one history entry more, and its status
\* and location, the other batches, the roles, the indexes and the event
\* log are as before.
C36_HolderUpdateFrame ==
    \A id \in BatchIdInputs, s \in Senders, a \in Addr :
        LET r == updateBatchHolder(World, s, id, a)
        IN  /\ r.ok <=> (s = manufacturer /\ batchExistsView(World, id)
                           /\ a # ZeroAddress)
            /\ r.ok =>
                  /\ r.w.batches[id].currentHolder = a
                  /\ Len(r.w.batches[id].history)
                        = Len(batches[id].history) + 1
                  /\ r.w.batches[id].status = batches[id].status
                  /\ r.w.batches[id].currentLocation
                        = batches[id].currentLocation
                  /\ \A o \in BatchIdInputs \ {id} :
                        r.w.batches[o] = batches[o]
                  /\ r.w.manufacturer = manufacturer
                  /\ r.w.distributor = distributor
                  /\ r.w.retailer = retailer
                  /\ r.w.allBatchIds = allBatchIds
                  /\ r.w.userBatches = userBatches
                  /\ r.w.events = events

\* C36 witness: B1 was delivered to the consumer and then had its holder
\* updated to account 2; it is still DeliveredToConsumer.
C36_Witness ==
    /\ batches["B1"].status = DeliveredToConsumer
    /\ Len(batches["B1"].history) = 5
    /\ batches["B1"].history[4] = "Delivered to consumer"
    /\ batches["B1"].history[5] = "Holder updated by manufacturer"
    /\ batches["B1"].currentHolder = 2
    /\ retailer = 3

\* C37: in every reachable state the holder of every existing batch is not
\* the zero address, and no call of any function leaves an existing batch
\* with the zero address as holder.
C37_HolderNonNull ==
    \A id \in BatchIdInputs :
        LET HolderSet(r) == batchExistsView(r.w, id)
                              => r.w.batches[id].currentHolder # ZeroAddress
        IN  /\ batchExistsView(World, id)
                  => batches[id].currentHolder # ZeroAddress
            /\ EveryCall(HolderSet)

\* C37 witness: the distributor is the zero address, as the ledger was
\* deployed, and B1 has been received by the retailer, who holds it.
C37_Witness ==
    /\ distributor = ZeroAddress
    /\ retailer = 3
    /\ batches["B1"].status = DeliveredToRetailer
    /\ batches["B1"].currentHolder = 3

\* C38: in every reachable state, for every existing batch that is not
\* DeliveredToConsumer, some account registered as manufacturer,
\* distributor or retailer has an updateBatchStatus call that succeeds.
C38_NeverStuck ==
    \A id \in BatchIdInputs :
        (batchExistsView(World, id)
           /\ batches[id].status # DeliveredToConsumer) =>
            \E s \in {manufacturer, distributor, retailer} \ {ZeroAddress},
               t \in Status, loc \in Locations :
                updateBatchStatus(World, s, id, t, loc).ok

====
